---- MODULE Spec2Model ----
(***************************************************************************)
(* A model of cursor-overlay: the Electron main process (main.ts) with its *)
(* two readers (CursorDatabaseReader over the key-value store,             *)
(* ClaudeJsonlReader over the JSONL session files), the file watcher, the  *)
(* 'get-recent-chats' merge, and the renderer's status derivation.         *)
(*                                                                         *)
(* Specifications:                                                         *)
(*   SpecTask     mapSummaryToTask applied to bounded summaries            *)
(*   SpecPending  hasBlockingPendingActions applied to bounded logs        *)
(*   SpecMerge    one 'get-recent-chats' request on bounded source states  *)
(*   SpecReader   calls on one CursorDatabaseReader over a fixed store     *)
(*   SpecSummaries  the readers' summarizing methods on bounded records    *)
(*   SpecTodos    extractTodoStats applied to bounded logs                 *)
(*   SpecListeners  onDatabaseChanged registrations, removals and events   *)
(*   SpecFolder   getCommonFolderName applied to bounded path lists        *)
(*   SpecRefresh  useOverlayData: overlapping load() calls and replies     *)
(*   SpecBlacklist  useBlacklist in OverlayApp: hiding conversations       *)
(*   Spec         the main process: startup, watcher, requests, windows    *)
(*   FairSpec     Spec with the event loop running its timers and steps    *)
(***************************************************************************)
EXTENDS Integers, Sequences, FiniteSets, TLC

VARIABLES
  summary,      \* SpecTask: the ConversationSummary handed to mapSummaryToTask
  task,         \* SpecTask: the ConversationTask it returned (None before the call)
  messages,     \* SpecPending: the message records of one parsed session log
  pending,      \* SpecPending: what hasBlockingPendingActions returned (None before)
  produced,     \* the last call made on a reader with what it returned (None before)
  listeners,    \* preload: ipcRenderer's listeners of 'database-changed', in order
  callbacks,    \* renderer: each onDatabaseChanged registration, [state, invoked]
  events,       \* renderer: the 'database-changed' events delivered, [count, last]
  loads,        \* useOverlayData: the load() calls in flight, oldest first
  display,      \* useOverlayData: the load whose tasks setState last stored, [load, data]
  started,      \* useOverlayData: how many load() calls have begun
  blacklistState, \* useBlacklist in OverlayApp: the state the last setBlacklist stored
  rendered,     \* OverlayApp: the blacklist its last render (and its closures) saw
  stored,       \* localStorage['cursor-overlay-blacklist']: None, or the ids of the array
  passed,       \* the ids addToBlacklist has been called with
  mounted,      \* useBlacklist: the mount effect has read localStorage
  dbFile,       \* the key-value store file: "missing", "invalid" (no cursorDiskKV), "valid"
  kv,           \* the rows of cursorDiskKV, by key
  claudeFs,     \* ~/.claude/projects: [root, files]
  fsRace,       \* what the file system does under the next getRecentSessions call
  dbReader,     \* main.ts dbReader is set (not null)
  claudeReader, \* main.ts claudeReader is set (not null)
  db,           \* CursorDatabaseReader.db: "null", or what the open handle points at
  cache,        \* CursorDatabaseReader.cache, by key
  response,     \* what the last 'get-recent-chats' call handed to its caller
  callLog,      \* SpecReader: the last two calls made on the reader, latest last
  platform,     \* process.platform: "darwin" or "other"
  pc,           \* main process: "start", "connected", "running", "quit"
  mainWindow,   \* main.ts mainWindow is set (not null)
  watcher,      \* an fs.watch watcher is attached to the store file
  timer,        \* setupDatabaseWatcher's setTimeout: "idle", "armed", "expired"
  fsEvents,     \* events the watcher has still to deliver, oldest first
  notified,     \* 'database-changed' messages sent to the renderer
  writes,       \* operations other processes have made on the store file
  lastWatch     \* the last watcher callback: its event and what it found

listenerVars == <<listeners, callbacks, events>>
refreshVars == <<loads, display, started>>
blacklistVars == <<blacklistState, rendered, stored, passed, mounted>>
rendererVars == <<listenerVars, refreshVars, blacklistVars>>
pureVars == <<summary, task, messages, pending, produced, rendererVars>>
storeVars == <<dbFile, kv>>
claudeVars == <<claudeFs, fsRace>>
readerVars == <<db, cache>>
mainVars == <<dbReader, claudeReader>>
lifeVars == <<platform, pc, mainWindow, watcher, timer, fsEvents, notified, writes, lastWatch>>
appVars == <<dbFile, kv, claudeFs, fsRace, dbReader, claudeReader, db, cache, response, callLog,
             lifeVars>>
vars == <<summary, task, messages, pending, produced, listeners, callbacks, events,
          loads, display, started, blacklistState, rendered, stored, passed, mounted, dbFile, kv, claudeFs, fsRace,
          dbReader, claudeReader, db, cache, response, callLog,
          platform, pc, mainWindow, watcher, timer, fsEvents, notified, writes, lastWatch>>

----------------------------------------------------------------------------
(* JavaScript's undefined/null next to a value: an optional is a sequence   *)
(* of length 0 (undefined) or 1 (the value).                                *)
None == <<>>
Some(x) == <<x>>

\* The element of a one-element set. The({F(x) : x \in {v}}) is F of the
\* value of v: the result of a call, held in the local x. Nested, the
\* calls run in the order of the bindings read from the last line up.
The(S) == CHOOSE x \in S : TRUE

----------------------------------------------------------------------------
(* Bounds of the model.                                                     *)
MaxMsgs == 2      \* message records in a session log
MaxTodos == 3     \* todo items in a summary
MaxConvs == 2     \* conversation ids in the key-value store
MaxHeaders == 2   \* headers (bubbles) of one conversation
MaxWrites == 2    \* operations other processes make on the store file
MaxFiles == 2     \* session files under the Claude projects directory
MaxLimit == 4     \* the largest limit a 'get-recent-chats' request carries
MaxItems == 2     \* todos in the list of one TodoWrite block
MaxBlocks == 2    \* content blocks in one message
MaxSegs == 2      \* pieces between the '/' of one file path
MaxPaths == 2     \* file paths a conversation refers to
MaxLoads == 3     \* load() calls the renderer begins
MaxRegs == 3      \* onDatabaseChanged registrations the renderer makes
MaxEvents == 2    \* 'database-changed' events delivered to the renderer

----------------------------------------------------------------------------
(* renderer: useOverlayData.mapSummaryToTask                                *)

ActiveWindowMs == 60 * 1000

\* Milliseconds-ago values a summary can carry: around the 60 s threshold,
\* a day-old one, zero and a negative one (a timestamp ahead of the clock).
MsAgoValues == {0 - 1000, 0, 5000, 59999, 60000, 90000000}

TodoStats == {[completed |-> c, total |-> t] : c \in 0..MaxTodos, t \in 0..MaxTodos}

\* The summaries the readers can hand over: todo counts come from filtering
\* one list, so completed <= total; 'unknown' activity time carries msAgo 0.
SummaryInputs ==
  {s \in [lastActivityTime : {"unknown", "known"},
          lastActivityTimeMsAgo : {None} \cup {Some(m) : m \in MsAgoValues},
          hasBlockingPendingActions : {None, Some(TRUE), Some(FALSE)},
          todos : {None} \cup {Some(t) : t \in TodoStats}] :
     /\ (s.todos # None => s.todos[1].completed <= s.todos[1].total)
     /\ (s.lastActivityTime = "unknown" => s.lastActivityTimeMsAgo = Some(0))}

\* JavaScript truthiness of an optional boolean.
Truthy(b) == b # None /\ b[1]

\* useOverlayData load: summary.lastActivityTimeMsAgo < 24 * 60 * 60 * 1000
\* (undefined < n is false).
PassesRecencyFilter(s) ==
  s.lastActivityTimeMsAgo # None /\ s.lastActivityTimeMsAgo[1] < 24 * 60 * 60 * 1000

mapSummaryToTask_NoPendingFlag(s) ==
  LET todos == IF s.todos = None THEN [completed |-> 0, total |-> 0] ELSE s.todos[1]
      status ==
        IF s.lastActivityTimeMsAgo # None /\ s.lastActivityTimeMsAgo[1] < ActiveWindowMs
        THEN "active"
        ELSE IF todos.completed < todos.total THEN "pending" ELSE "completed"
  IN [status |-> status,
      todos |-> todos,
      lastActivityTime |-> s.lastActivityTime,
      hasBlockingPendingActions |-> s.hasBlockingPendingActions]

mapSummaryToTask(s) ==
  LET todos == IF s.todos = None THEN [completed |-> 0, total |-> 0] ELSE s.todos[1]
      status ==
        IF \/ (s.lastActivityTimeMsAgo # None /\ s.lastActivityTimeMsAgo[1] < ActiveWindowMs)
           \/ Truthy(s.hasBlockingPendingActions)
        THEN "active"
        ELSE IF todos.completed < todos.total THEN "pending" ELSE "completed"
  IN [status |-> status,
      todos |-> todos,
      lastActivityTime |-> s.lastActivityTime,
      hasBlockingPendingActions |-> s.hasBlockingPendingActions]

----------------------------------------------------------------------------
(* ClaudeJsonlReader.hasBlockingPendingActions                              *)

BlockTypes == {"text", "tool_use", "tool_result"}

\* message.content: missing, a plain string, or a list of typed blocks (the
\* code only asks which block types occur, so a list is the set of its types;
\* a logged content list holds at least one block).
Contents ==
  {[kind |-> "undefined", blocks |-> {}], [kind |-> "string", blocks |-> {}]}
  \cup {[kind |-> "array", blocks |-> b] : b \in (SUBSET BlockTypes) \ {{}}}

\* A non-summary record of a session log; "system" stands for any record
\* type other than user and assistant.
MessageRecords == [type : {"user", "assistant", "system"}, content : Contents]

RECURSIVE SeqsUpTo(_, _)
SeqsUpTo(S, n) ==
  IF n = 0 THEN {<<>>}
  ELSE LET shorter == SeqsUpTo(S, n - 1)
       IN shorter \cup {Append(q, x) : q \in {r \in shorter : Len(r) = n - 1}, x \in S}

IsArray(content) == content.kind = "array"

hasBlockingPendingActions(msgs) ==
  IF Len(msgs) = 0 THEN FALSE
  ELSE LET lastMessage == msgs[Len(msgs)]
           content == lastMessage.content
       IN IF lastMessage.type = "assistant"
          THEN IsArray(content) /\ "tool_use" \in content.blocks
          ELSE IF lastMessage.type = "user"
               THEN IF IsArray(content)
                    THEN "tool_result" \in content.blocks
                    ELSE TRUE
               ELSE FALSE

----------------------------------------------------------------------------
(* The key-value store (table cursorDiskKV) and its records.                *)

ConvIds == 1..MaxConvs
BubbleIds == 1..MaxHeaders

\* 'composerData:<id>' and 'bubbleId:<composerId>:<bubbleId>'.
ConvKey(c) == [t |-> "composerData", c |-> c, b |-> 0]
generateBubbleIdKey(c, b) == [t |-> "bubbleId", c |-> c, b |-> b]
Keys == {ConvKey(c) : c \in ConvIds} \cup {generateBubbleIdKey(c, b) : c \in ConvIds, b \in BubbleIds}

Absent == [kind |-> "absent"]     \* no row under the key
Corrupt == [kind |-> "corrupt"]   \* a row whose value JSON.parse rejects
Null == [kind |-> "null"]         \* a call's null result
NotCached == [kind |-> "none"]    \* cache.has(key) is false

\* The clock reading (Date.now()) of the modelled instant, in ms.
Now == 100000000

\* createdAt of the messages: a day old, five seconds old, one second ahead
\* of the clock.
Timestamps == {Now - 90000000, Now - 5000, Now + 1000}

\* BubbleMessage.createdAt: absent, '', a string parseISO rejects, an ISO time.
CreatedAts ==
  {[kind |-> "missing"], [kind |-> "empty"], [kind |-> "invalid"]}
  \cup {[kind |-> "iso", t |-> t] : t \in Timestamps}

\* fullConversationHeadersOnly: the bubble ids 1..n in order.
HeaderLists == {[i \in 1..n |-> i] : n \in 0..MaxHeaders}

ConvRows ==
  {[kind |-> "ok", headers |-> h, hasBlockingPendingActions |-> p] :
     h \in HeaderLists, p \in BOOLEAN}

BubbleRows == {[kind |-> "ok", createdAt |-> a] : a \in CreatedAts}

RowsFor(key) ==
  IF key.t = "composerData" THEN ConvRows \cup {Corrupt, Absent}
  ELSE BubbleRows \cup {Corrupt, Absent}

EmptyStore == [k \in Keys |-> Absent]
EmptyCache == [k \in Keys |-> NotCached]

\* A key the store cannot hold (bubble id undefined) has no row, no entry.
Lookup(store, key) == IF key \in DOMAIN store THEN store[key] ELSE Absent
CacheGet(c, key) == IF key \in DOMAIN c THEN c[key] ELSE NotCached

----------------------------------------------------------------------------
(* CursorDatabaseReader. A reader is r = [db, cache]; every method returns  *)
(* the reader it leaves behind, the error it threw ("none" when it          *)
(* returned) and its value.                                                 *)

\* createDefaultDatabaseConfig(): the defaults main.ts does not override.
cacheEnabled == TRUE
resolveBubblesAutomatically == TRUE
\* main.ts: maxConversations: 50
maxConversations == 50

connect(r, file) ==
  IF r.db # "null" THEN [r |-> r, threw |-> "none"]
  ELSE CASE file = "missing" ->
              \* new Database() throws: this.db is never assigned
              [r |-> r, threw |-> "DatabaseConnectionError"]
         [] file = "invalid" ->
              \* the handle opens, the test query throws: this.db stays set
              [r |-> [r EXCEPT !.db = "invalid"], threw |-> "DatabaseConnectionError"]
         [] OTHER ->
              [r |-> [r EXCEPT !.db = "valid"], threw |-> "none"]

close_KeepCache(r) == [r EXCEPT !.db = "null"]

close_KeepHandle(r) == [r EXCEPT !.cache = EmptyCache]

close(r) == [db |-> "null", cache |-> EmptyCache]

clearCache(r) == [r EXCEPT !.cache = EmptyCache]

ensureConnected(r, file) ==
  IF r.db = "null" THEN connect(r, file) ELSE [r |-> r, threw |-> "none"]

\* The body getConversationById and getBubbleMessage share: ensureConnected,
\* the cache lookup, the SELECT, JSON.parse, the cache write (when
\* writeCache). reads counts the SELECTs that reached the store.
CachedGet(r, file, store, key, writeCache) ==
  The({
    IF e.threw # "none"
    THEN [r |-> e.r, threw |-> e.threw, value |-> Null, reads |-> 0]
    ELSE IF cacheEnabled /\ CacheGet(e.r.cache, key) # NotCached
    THEN [r |-> e.r, threw |-> "none", value |-> CacheGet(e.r.cache, key), reads |-> 0]
    ELSE IF e.r.db # "valid"
    THEN \* prepare() throws on a handle that failed the connection test
         [r |-> e.r, threw |-> "DatabaseError", value |-> Null, reads |-> 0]
    ELSE LET row == Lookup(store, key)
         IN IF row = Absent
            THEN [r |-> e.r, threw |-> "none", value |-> Null, reads |-> 1]
            ELSE IF row = Corrupt
            THEN [r |-> e.r, threw |-> "ConversationParseError", value |-> Null, reads |-> 1]
            ELSE [r |-> IF writeCache
                        THEN [e.r EXCEPT !.cache = [@ EXCEPT ![key] = row]]
                        ELSE e.r,
                  threw |-> "none", value |-> row, reads |-> 1]
    : e \in {ensureConnected(r, file)}})

getConversationById_NoCacheWrite(r, file, store, c) ==
  CachedGet(r, file, store, ConvKey(c), FALSE)

getConversationById_SwallowParseError(r, file, store, c) ==
  The({IF g.threw = "ConversationParseError" THEN [g EXCEPT !.threw = "none"] ELSE g
    : g \in {CachedGet(r, file, store, ConvKey(c), cacheEnabled)}})

getConversationById(r, file, store, c) ==
  CachedGet(r, file, store, ConvKey(c), cacheEnabled)

getBubbleMessage(r, file, store, c, b) ==
  CachedGet(r, file, store, generateBubbleIdKey(c, b), cacheEnabled)

\* Math.floor(limit / 2) and Array.prototype.slice(0, n).
Take(q, n) == SubSeq(q, 1, IF n < Len(q) THEN n ELSE Len(q))

RECURSIVE DescSeq(_)
DescSeq(S) ==
  IF S = {} THEN <<>>
  ELSE LET m == CHOOSE x \in S : \A y \in S : y <= x
       IN <<m>> \o DescSeq(S \ {m})

\* SELECT key ... WHERE key LIKE 'composerData:%' ... ORDER BY ROWID DESC
\* LIMIT ?: the modelled rows pass the size and "_v" filters, and a row's
\* ROWID grows with its conversation id.
getConversationIds(r, file, store) ==
  The({
    IF e.threw # "none"
    THEN [r |-> e.r, threw |-> e.threw, value |-> <<>>]
    ELSE IF e.r.db # "valid"
    THEN [r |-> e.r, threw |-> "DatabaseError", value |-> <<>>]
    ELSE [r |-> e.r, threw |-> "none",
          value |-> Take(DescSeq({c \in ConvIds : Lookup(store, ConvKey(c)) # Absent}),
                         maxConversations)]
    : e \in {ensureConnected(r, file)}})

\* getLastActivityTime: the createdAt of the bubble the last header names.
getLastActivityTime(r, file, store, conversation, c) ==
  LET headers == conversation.headers
      lastBubbleId == IF Len(headers) = 0 THEN 0 ELSE headers[Len(headers)]
  IN The({
       LET createdAt == IF g.value = Null THEN [kind |-> "missing"] ELSE g.value.createdAt
       IN IF g.threw # "none"
          THEN [r |-> g.r, threw |-> g.threw, string |-> "unknown", msAgo |-> 0]
          ELSE IF createdAt.kind \in {"missing", "empty"}
          THEN [r |-> g.r, threw |-> "none", string |-> "unknown", msAgo |-> 0]
          ELSE IF createdAt.kind = "invalid"
          THEN [r |-> g.r, threw |-> "none", string |-> "unknown", msAgo |-> 0]
          ELSE [r |-> g.r, threw |-> "none", string |-> "known",
                msAgo |-> Now - createdAt.t]
    : g \in {getBubbleMessage(r, file, store, c, lastBubbleId)}})

\* The bubble loop of getConversationSummary from header i on: a throw of
\* getBubbleMessage leaves the loop and the method.
RECURSIVE ResolveBubbles(_, _, _, _, _, _)
ResolveBubbles(r, file, store, c, headers, i) ==
  IF i > Len(headers) THEN [r |-> r, threw |-> "none"]
  ELSE The({
         IF g.threw # "none" THEN [r |-> g.r, threw |-> g.threw]
         ELSE ResolveBubbles(g.r, file, store, c, headers, i + 1)
    : g \in {getBubbleMessage(r, file, store, c, headers[i])}})

MessageCountOf_Resolvable(conversation) ==
  IF Len(conversation.headers) = 0 THEN 0 ELSE Len(conversation.headers) - 1

\* const messageCount = modernConvo.fullConversationHeadersOnly.length
MessageCountOf(conversation) == Len(conversation.headers)

getConversationSummary(r, file, store, c, needsBubbleResolution) ==
  The({
    IF e.threw # "none" THEN [r |-> e.r, threw |-> e.threw, value |-> Null]
    ELSE
  The({
    IF g.threw # "none" THEN [r |-> g.r, threw |-> g.threw, value |-> Null]
    ELSE IF g.value = Null THEN [r |-> g.r, threw |-> "none", value |-> Null]
    ELSE
  The({
    IF b.threw # "none" THEN [r |-> b.r, threw |-> b.threw, value |-> Null]
    ELSE
  The({
    IF t.threw # "none" THEN [r |-> t.r, threw |-> t.threw, value |-> Null]
    ELSE [r |-> t.r, threw |-> "none",
          value |-> [kind |-> "summary",
                     composerId |-> c,
                     messageCount |-> MessageCountOf(g.value),
                     lastActivityTime |-> t.string,
                     lastActivityTimeMsAgo |-> t.msAgo,
                     hasBlockingPendingActions |-> g.value.hasBlockingPendingActions]]
    : t \in {getLastActivityTime(b.r, file, store, g.value, c)}})
    : b \in {IF needsBubbleResolution /\ resolveBubblesAutomatically
       THEN ResolveBubbles(g.r, file, store, c, g.value.headers, 1)
       ELSE [r |-> g.r, threw |-> "none"]}})
    : g \in {getConversationById(e.r, file, store, c)}})
    : e \in {ensureConnected(r, file)}})

----------------------------------------------------------------------------
(* ClaudeJsonlReader over ~/.claude/projects: one project directory with    *)
(* the session files FileIds; file f was last written at time f.            *)

FileIds == 1..MaxFiles

CorruptLine == [kind |-> "corrupt"]
SummaryLine == [kind |-> "summary"]
MessageLine(type, content, timestamp, sessionId) ==
  [kind |-> "message", type |-> type, content |-> content,
   timestamp |-> timestamp, sessionId |-> sessionId]

TextBlocks == [kind |-> "array", blocks |-> {"text"}]
ToolUseBlocks == [kind |-> "array", blocks |-> {"text", "tool_use"}]
Iso(t) == [kind |-> "iso", t |-> t]

\* The session logs the merge is run on: an empty file, a log with a broken
\* first line and a recent message (sessions 1 and 2), a day-old exchange
\* of session 1, and a log whose only message has no parseable timestamp.
LogSamples ==
  {<<>>,
   <<MessageLine("user", TextBlocks, [kind |-> "invalid"], 1)>>,
   <<SummaryLine,
     MessageLine("user", [kind |-> "string", blocks |-> {}], Iso(Now - 90000000), 1),
     MessageLine("assistant", ToolUseBlocks, Iso(Now - 90000000), 1)>>}
  \cup {<<CorruptLine, MessageLine("user", TextBlocks, Iso(Now - 5000), sid)>> : sid \in 1..2}

SessionFiles == {Absent} \cup {[kind |-> "file", lines |-> l] : l \in LogSamples}

\* parseSessionFile on a file that exists: null, or the session.
RECURSIVE SelectLines(_, _)
SelectLines(lines, kinds) ==
  IF lines = <<>> THEN <<>>
  ELSE (IF lines[1].kind \in kinds THEN <<lines[1]>> ELSE <<>>)
       \o SelectLines(Tail(lines), kinds)

parseSessionFile(file) ==
  IF file = Absent THEN Null
  ELSE LET msgs == SelectLines(file.lines, {"message"})
       IN IF Len(file.lines) = 0 THEN Null
          ELSE IF Len(msgs) = 0 THEN Null
          ELSE IF msgs[Len(msgs)].timestamp.kind # "iso"
          THEN \* formatDistanceToNow(Invalid Date) throws; the catch returns null
               Null
          ELSE [kind |-> "summary",
                composerId |-> msgs[1].sessionId,
                messageCount |-> Len(msgs),
                lastActivityTime |-> "known",
                lastActivityTimeMsAgo |-> Now - msgs[Len(msgs)].timestamp.t,
                hasBlockingPendingActions |-> hasBlockingPendingActions(msgs)]

\* What the file system does under one getRecentSessions call: nothing, or
\* an entry vanishes between readdir and the named stat / the parse.
NoRace == [at |-> "none", f |-> 0]
Races ==
  {NoRace, [at |-> "projectStat", f |-> 0], [at |-> "sortStat", f |-> 0]}
  \cup {[at |-> a, f |-> f] : a \in {"loopStat", "parse"}, f \in FileIds}

\* config.maxSessions
maxSessions == 50

RECURSIVE ParseAll(_, _, _)
ParseAll(files, order, race) ==
  IF order = <<>> THEN <<>>
  ELSE LET f == order[1]
           session == IF race.at = "parse" /\ race.f = f THEN Null
                      ELSE parseSessionFile(files[f])
       IN (IF session = Null THEN <<>> ELSE <<session>>)
          \o ParseAll(files, Tail(order), race)

getRecentSessions(limit, cfs, race) ==
  LET max == IF limit # 0 THEN limit ELSE maxSessions   \* limit || maxSessions || 50
      listed == {f \in FileIds : cfs.files[f] # Absent}
      statted == {f \in listed : ~(race.at = "loopStat" /\ race.f = f)}
  IN IF ~cfs.root THEN [threw |-> "none", value |-> <<>>]
     ELSE IF race.at = "projectStat"
     THEN \* getProjects: statSync of a vanished directory entry
          [threw |-> "ENOENT", value |-> <<>>]
     ELSE IF race.at = "sortStat" /\ Cardinality(listed) >= 2
     THEN \* getProjectSessions: statSync inside the sort comparator
          [threw |-> "ENOENT", value |-> <<>>]
     ELSE [threw |-> "none",
           value |-> ParseAll(cfs.files, Take(DescSeq(statted), max), race)]

----------------------------------------------------------------------------
(* main.ts: ipcMain.handle('get-recent-chats').                             *)

WithSource(s, source) ==
  [source |-> source,
   composerId |-> s.composerId,
   messageCount |-> s.messageCount,
   lastActivityTime |-> s.lastActivityTime,
   lastActivityTimeMsAgo |-> s.lastActivityTimeMsAgo,
   hasBlockingPendingActions |-> s.hasBlockingPendingActions]

\* recentConversations.map(async id => { try ... catch { return null } })
\* followed by filter(s => s !== null); the reader is threaded through.
RECURSIVE SummarizeAll_NoItemCatch(_, _, _, _)
SummarizeAll_NoItemCatch(r, file, store, ids) ==
  IF ids = <<>> THEN [r |-> r, items |-> <<>>]
  ELSE The({
         IF g.threw # "none" THEN [r |-> g.r, items |-> <<>>]
         ELSE The({
                [r |-> rest.r,
                 items |-> (IF g.value # Null
                            THEN <<WithSource(g.value, "cursor")>> ELSE <<>>)
                           \o rest.items]
                : rest \in {SummarizeAll_NoItemCatch(g.r, file, store, Tail(ids))}})
         : g \in {getConversationSummary(r, file, store, ids[1], TRUE)}})

RECURSIVE SummarizeAll(_, _, _, _)
SummarizeAll(r, file, store, ids) ==
  IF ids = <<>> THEN [r |-> r, items |-> <<>>]
  ELSE The({
       The({
         [r |-> rest.r,
          items |-> (IF g.threw = "none" /\ g.value # Null
                     THEN <<WithSource(g.value, "cursor")>> ELSE <<>>)
                    \o rest.items]
    : rest \in {SummarizeAll(g.r, file, store, Tail(ids))}})
    : g \in {getConversationSummary(r, file, store, ids[1], TRUE)}})

\* Lines 204-240: the Cursor half. threw is what leaves the half.
CursorChats(dbReaderSet, r, file, store, limit) ==
  IF ~dbReaderSet
  THEN [r |-> r, items |-> <<>>, errors |-> <<"Cursor database not connected">>,
        threw |-> "none"]
  ELSE The({
         IF ids.threw # "none"
         THEN [r |-> ids.r, items |-> <<>>,
               errors |-> <<IF ids.threw = "DatabaseConnectionError"
                            THEN "Cursor: DatabaseConnectionError"
                            ELSE "Cursor: DatabaseError">>,
               threw |-> "none"]
         ELSE The({
                     [r |-> all.r, items |-> all.items, errors |-> <<>>, threw |-> "none"]
    : all \in {SummarizeAll(ids.r, file, store, Take(ids.value, limit \div 2))}})
    : ids \in {getConversationIds(r, file, store)}})

RECURSIVE TagAll(_, _)
TagAll(q, source) ==
  IF q = <<>> THEN <<>> ELSE <<WithSource(q[1], source)>> \o TagAll(Tail(q), source)

ClaudeChats_NoCatch(claudeReaderSet, cfs, limit, race) ==
  IF ~claudeReaderSet
  THEN [items |-> <<>>, errors |-> <<"Claude reader not initialized">>, threw |-> "none"]
  ELSE The({
         IF g.threw # "none"
         THEN [items |-> <<>>, errors |-> <<>>, threw |-> g.threw]
         ELSE [items |-> TagAll(g.value, "claude"), errors |-> <<>>, threw |-> "none"]
    : g \in {getRecentSessions(limit \div 2, cfs, race)}})

\* Lines 242-254: the Claude half.
ClaudeChats(claudeReaderSet, cfs, limit, race) ==
  IF ~claudeReaderSet
  THEN [items |-> <<>>, errors |-> <<"Claude reader not initialized">>, threw |-> "none"]
  ELSE The({
         IF g.threw # "none"
         THEN [items |-> <<>>, errors |-> <<"Claude: ENOENT">>, threw |-> "none"]
         ELSE [items |-> TagAll(g.value, "claude"), errors |-> <<>>, threw |-> "none"]
    : g \in {getRecentSessions(limit \div 2, cfs, race)}})

\* A comparator that finds every pair equal, and the one of the code:
\* (a.lastActivityTimeMsAgo as number) || 0
SortKey_AllEqual(s) == 0

SortKey(s) == IF s.lastActivityTimeMsAgo = 0 THEN 0 ELSE s.lastActivityTimeMsAgo

\* Array.prototype.sort with (a, b) => aTime - bTime: stable, ascending.
InsertByKey(sorted, x) ==
  LET n == Cardinality({i \in 1..Len(sorted) : SortKey(sorted[i]) <= SortKey(x)})
  IN SubSeq(sorted, 1, n) \o <<x>> \o SubSeq(sorted, n + 1, Len(sorted))

RECURSIVE SortChats(_)
SortChats(q) ==
  IF q = <<>> THEN <<>>
  ELSE The({
         InsertByKey(sorted, q[Len(q)])
    : sorted \in {SortChats(SubSeq(q, 1, Len(q) - 1))}})

\* The whole handler: the reader it leaves, and what the caller receives
\* (kind "exception" when an error leaves the handler). fromCursor and
\* fromClaude are its locals validSummaries and claudeChats.
GetRecentChatsHandler(dbReaderSet, r, file, store, claudeReaderSet, cfs, limit, race) ==
  The({
  The({
  The({
    [r |-> cursor.r,
     response |->
       IF cursor.threw # "none" \/ claude.threw # "none"
       THEN [kind |-> "exception", limit |-> limit]
       ELSE [kind |-> "result",
             limit |-> limit,
             data |-> Take(allChats, limit),
             errors |-> cursor.errors \o claude.errors,
             sources |-> [cursor |-> IF dbReaderSet THEN "connected" ELSE "disconnected",
                          claude |-> IF claudeReaderSet THEN "connected" ELSE "disconnected"],
             fromCursor |-> cursor.items,
             fromClaude |-> claude.items]]
    : allChats \in {SortChats(cursor.items \o claude.items)}})
    : claude \in {ClaudeChats(claudeReaderSet, cfs, limit, race)}})
    : cursor \in {CursorChats(dbReaderSet, r, file, store, limit)}})

----------------------------------------------------------------------------
(* The states outside a specification's scope.                              *)

EmptyFs == [root |-> FALSE, files |-> [f \in FileIds |-> Absent]]

\* The registrations of onDatabaseChanged: each has a wrappedCallback of its own.
RegIds == 1..MaxRegs

\* The renderer before any registration and any event.
RendererIdle ==
  /\ listeners = <<>>
  /\ callbacks = [r \in RegIds |-> [state |-> "unused", invoked |-> 0]]
  /\ events = [count |-> 0, last |-> {}]
  /\ loads = <<>>
  /\ display = [load |-> 0, data |-> 0]
  /\ started = 0
  /\ blacklistState = {}
  /\ rendered = {}
  /\ stored = None
  /\ passed = {}
  /\ mounted = FALSE

PureIdle ==
  /\ summary = None
  /\ task = None
  /\ messages = <<>>
  /\ pending = None
  /\ produced = None
  /\ RendererIdle

\* The main process as a request finds it: running, its window open.
LifeIdle ==
  /\ platform = "darwin"
  /\ pc = "running"
  /\ mainWindow = TRUE
  /\ watcher = FALSE
  /\ timer = "idle"
  /\ fsEvents = <<>>
  /\ notified = 0
  /\ writes = 0
  /\ lastWatch = None

AppIdle ==
  /\ dbFile = "valid"
  /\ kv = EmptyStore
  /\ claudeFs = EmptyFs
  /\ fsRace = NoRace
  /\ dbReader = FALSE
  /\ claudeReader = FALSE
  /\ db = "null"
  /\ cache = EmptyCache
  /\ response = None
  /\ callLog = <<>>
  /\ LifeIdle

----------------------------------------------------------------------------
(* SpecMerge: one 'get-recent-chats' call on the stores, session files and  *)
(* reader states the application can be in when a request arrives.          *)

OkConv(n, p) == [kind |-> "ok", headers |-> [i \in 1..n |-> i], hasBlockingPendingActions |-> p]
OkBubble(a) == [kind |-> "ok", createdAt |-> a]

\* One conversation as the editor leaves it: its row, and the bubble its
\* last header names (earlier bubbles are a day old).
ConvSamples ==
  {[row |-> Absent, last |-> Absent],
   [row |-> Corrupt, last |-> Absent],
   [row |-> OkConv(MaxHeaders, FALSE), last |-> Corrupt],
   [row |-> OkConv(MaxHeaders, FALSE), last |-> OkBubble([kind |-> "empty"])]}
  \cup {[row |-> OkConv(MaxHeaders, FALSE), last |-> OkBubble(Iso(t))] :
          t \in {Now - 90000000, Now - 5000}}

StoreOf(assign) ==
  [k \in Keys |->
     LET sample == assign[k.c]
     IN IF k.t = "composerData" THEN sample.row
        ELSE IF sample.row.kind # "ok" \/ k.b > Len(sample.row.headers) THEN Absent
        ELSE IF k.b = Len(sample.row.headers) THEN sample.last
        ELSE OkBubble(Iso(Now - 90000000))]

SampleStores == {StoreOf(assign) : assign \in [ConvIds -> ConvSamples]}

SampleFs ==
  {EmptyFs} \cup {[root |-> TRUE, files |-> fs] : fs \in [FileIds -> SessionFiles]}

\* Session directories whose files all hold the same log.
UniformFs ==
  {EmptyFs} \cup {[root |-> TRUE, files |-> [f \in FileIds |-> file]] : file \in SessionFiles}

\* Both sources healthy, on every store and every set of session files; or
\* any state of the two sources (reader null, connection failing or failed,
\* a stat race in the Claude directories) on uniform stores and directories.
InitMerge ==
  /\ PureIdle
  /\ LifeIdle
  /\ cache = EmptyCache
  /\ response = None
  /\ callLog = <<>>
  /\ \/ /\ dbReader = TRUE
        /\ claudeReader = TRUE
        /\ dbFile = "valid"
        /\ db = "valid"
        /\ kv \in SampleStores
        /\ claudeFs \in SampleFs
        /\ fsRace = NoRace
     \/ /\ dbReader \in BOOLEAN
        /\ claudeReader \in BOOLEAN
        /\ dbFile \in {"missing", "invalid", "valid"}
        /\ db \in IF dbReader THEN {"null", "invalid", "valid"} ELSE {"null"}
        /\ kv \in {StoreOf([c \in ConvIds |-> sample]) : sample \in ConvSamples}
        /\ claudeFs \in IF claudeReader THEN UniformFs ELSE {EmptyFs}
        /\ fsRace \in IF claudeReader THEN Races ELSE {NoRace}

GetRecentChats(limit) ==
  /\ response = None
  /\ LET h == GetRecentChatsHandler(dbReader, [db |-> db, cache |-> cache], dbFile, kv,
                                    claudeReader, claudeFs, limit, fsRace)
     IN /\ db' = h.r.db
        /\ cache' = h.r.cache
        /\ response' = Some(h.response)
  /\ UNCHANGED <<pureVars, storeVars, claudeVars, mainVars, callLog, lifeVars>>

NextMerge == \E limit \in 0..MaxLimit : GetRecentChats(limit)

SpecMerge == InitMerge /\ [][NextMerge]_vars

----------------------------------------------------------------------------
(* SpecReader: the public methods of one CursorDatabaseReader, called in    *)
(* any order over a store that does not change.                             *)

\* A call and what it gave: the method, its argument, the error it threw
\* ("none" when it returned) and the value it returned.
Produced(op, arg, threw, value) ==
  Some([op |-> op, arg |-> arg, threw |-> threw, value |-> value])

\* A call as the log keeps it: the method, its conversation (0 when it has
\* none), whether the handle was open on a valid store before the call,
\* the SELECTs it made and the error it threw.
LogEntry(op, c, connected, reads, threw) ==
  [op |-> op, c |-> c, connected |-> connected, reads |-> reads, threw |-> threw]

\* The log after one more call: the last two calls.
Logged(entry) ==
  IF Len(callLog) < 2 THEN Append(callLog, entry) ELSE <<callLog[2], entry>>

ReaderSamples ==
  {[row |-> Absent, last |-> Absent],
   [row |-> Corrupt, last |-> Absent],
   [row |-> OkConv(MaxHeaders, FALSE), last |-> OkBubble(Iso(Now - 5000))]}

\* Conversation 1 holds any of the samples; the others the decodable one.
ReaderStores ==
  {StoreOf([c \in ConvIds |->
              IF c = 1 THEN sample
              ELSE [row |-> OkConv(MaxHeaders, FALSE), last |-> OkBubble(Iso(Now - 5000))]]) :
     sample \in ReaderSamples}

InitReader ==
  /\ PureIdle
  /\ LifeIdle
  /\ dbFile \in {"missing", "invalid", "valid"}
  /\ kv \in ReaderStores
  /\ claudeFs = EmptyFs
  /\ fsRace = NoRace
  /\ dbReader = TRUE
  /\ claudeReader = FALSE
  /\ db = "null"
  /\ cache = EmptyCache
  /\ response = None
  /\ callLog = <<>>

Connect ==
  LET e == connect([db |-> db, cache |-> cache], dbFile)
  IN /\ db' = e.r.db
     /\ cache' = e.r.cache
     /\ callLog' = Logged(LogEntry("connect", 0, db = "valid", 0, e.threw))
     /\ UNCHANGED <<pureVars, storeVars, claudeVars, mainVars, response, lifeVars>>

Close ==
  LET r == close([db |-> db, cache |-> cache])
  IN /\ db' = r.db
     /\ cache' = r.cache
     /\ callLog' = Logged(LogEntry("close", 0, db = "valid", 0, "none"))
     /\ UNCHANGED <<pureVars, storeVars, claudeVars, mainVars, response, lifeVars>>

ClearCache ==
  LET r == clearCache([db |-> db, cache |-> cache])
  IN /\ db' = r.db
     /\ cache' = r.cache
     /\ callLog' = Logged(LogEntry("clearCache", 0, db = "valid", 0, "none"))
     /\ UNCHANGED <<pureVars, storeVars, claudeVars, mainVars, response, lifeVars>>

GetConversationById(c) ==
  LET g == getConversationById([db |-> db, cache |-> cache], dbFile, kv, c)
  IN /\ db' = g.r.db
     /\ cache' = g.r.cache
     /\ callLog' = Logged(LogEntry("getConversationById", c, db = "valid", g.reads, g.threw))
     /\ produced' = Produced("getConversationById", c, g.threw, g.value)
     /\ UNCHANGED <<rendererVars, summary, task, messages, pending, storeVars, claudeVars,
                    mainVars, response, lifeVars>>

GetBubbleMessage(c, b) ==
  LET g == getBubbleMessage([db |-> db, cache |-> cache], dbFile, kv, c, b)
  IN /\ db' = g.r.db
     /\ cache' = g.r.cache
     /\ callLog' = Logged(LogEntry("getBubbleMessage", c, db = "valid", g.reads, g.threw))
     /\ UNCHANGED <<pureVars, storeVars, claudeVars, mainVars, response, lifeVars>>

\* The ids the reader is asked for: the conversation whose row varies and
\* one whose row is always decodable.
ReaderIds == {c \in ConvIds : c <= 2}

NextReader ==
  \/ Connect
  \/ Close
  \/ ClearCache
  \/ \E c \in ReaderIds : GetConversationById(c)
  \/ \E c \in ReaderIds, b \in BubbleIds : GetBubbleMessage(c, b)

SpecReader == InitReader /\ [][NextReader]_vars

----------------------------------------------------------------------------
(* Spec: the main process from app.whenReady on, with the other processes   *)
(* that write, delete and create the store file.                            *)

\* The store and the session files the main process runs on: every
\* conversation answered five seconds ago, every session file one recent
\* message behind a broken line.
LifeStore ==
  StoreOf([c \in ConvIds |->
             [row |-> OkConv(MaxHeaders, FALSE), last |-> OkBubble(Iso(Now - 5000))]])

LifeFs ==
  [root |-> TRUE,
   files |-> [f \in FileIds |->
                [kind |-> "file",
                 lines |-> <<CorruptLine, MessageLine("user", TextBlocks, Iso(Now - 5000), 1)>>]]]

Init ==
  /\ PureIdle
  /\ platform \in {"darwin", "other"}
  /\ pc = "start"
  /\ mainWindow = FALSE
  /\ watcher = FALSE
  /\ timer = "idle"
  /\ fsEvents = <<>>
  /\ notified = 0
  /\ writes = 0
  /\ lastWatch = None
  /\ dbFile \in {"missing", "invalid", "valid"}
  /\ kv = LifeStore
  /\ claudeFs = LifeFs
  /\ fsRace = NoRace
  /\ dbReader = FALSE
  /\ claudeReader = FALSE
  /\ db = "null"
  /\ cache = EmptyCache
  /\ response = None
  /\ callLog = <<>>

\* setupDatabaseWatcher(dbPath) called with watcher w and timer t standing:
\* the watcher and the timer it leaves.
setupDatabaseWatcher(file, w, t) ==
  IF file = "missing"
  THEN [watcher |-> w, timer |-> "armed"]
  ELSE [watcher |-> TRUE, timer |-> t]

\* The fs.watch callback with its mutant: the reader it leaves and the
\* 'database-changed' messages it sends.
WatchCallback_NoClear(eventType, window, readerSet, r) ==
  IF eventType \in {"change", "rename"} /\ window
  THEN [r |-> r, sent |-> 1]
  ELSE [r |-> r, sent |-> 0]

WatchCallback(eventType, window, readerSet, r) ==
  IF eventType \in {"change", "rename"} /\ window
  THEN [r |-> IF readerSet THEN clearCache(r) ELSE r, sent |-> 1]
  ELSE [r |-> r, sent |-> 0]

\* initializeDatabase up to 'await dbReader.connect()'. When connect throws
\* the catch, the Claude reader and createWindow follow in the same turn.
InitializeDatabase ==
  /\ pc = "start"
  /\ LET e == connect([db |-> db, cache |-> cache], dbFile)
     IN /\ dbReader' = TRUE
        /\ db' = e.r.db
        /\ cache' = e.r.cache
        /\ IF e.threw = "none"
           THEN /\ pc' = "connected"
                /\ UNCHANGED <<claudeReader, mainWindow>>
           ELSE /\ pc' = "running"
                /\ claudeReader' = TRUE
                /\ mainWindow' = TRUE
  /\ UNCHANGED <<pureVars, storeVars, claudeVars, response, callLog,
                 platform, watcher, timer, fsEvents, notified, writes, lastWatch>>

\* After the await: setupDatabaseWatcher, the Claude reader, createWindow.
FinishStartup ==
  /\ pc = "connected"
  /\ LET s == setupDatabaseWatcher(dbFile, watcher, timer)
     IN /\ watcher' = s.watcher
        /\ timer' = s.timer
  /\ claudeReader' = TRUE
  /\ mainWindow' = TRUE
  /\ pc' = "running"
  /\ UNCHANGED <<pureVars, storeVars, claudeVars, readerVars, dbReader, response, callLog,
                 platform, fsEvents, notified, writes, lastWatch>>

\* The setTimeout callback of setupDatabaseWatcher, 5000 ms after it was set.
TimerFires ==
  /\ pc = "running"
  /\ timer = "armed"
  /\ IF dbFile # "missing"
     THEN LET s == setupDatabaseWatcher(dbFile, watcher, "expired")
          IN /\ watcher' = s.watcher
             /\ timer' = s.timer
     ELSE /\ timer' = "expired"
          /\ UNCHANGED watcher
  /\ UNCHANGED <<pureVars, storeVars, claudeVars, readerVars, mainVars, response, callLog,
                 platform, pc, mainWindow, fsEvents, notified, writes, lastWatch>>

\* The watcher delivers its oldest event to the callback.
DeliverEvent ==
  /\ pc = "running"
  /\ watcher
  /\ fsEvents # <<>>
  /\ LET w == WatchCallback(Head(fsEvents), mainWindow, dbReader, [db |-> db, cache |-> cache])
     IN /\ db' = w.r.db
        /\ cache' = w.r.cache
        /\ notified' = notified + w.sent
        /\ lastWatch' = Some([eventType |-> Head(fsEvents),
                              window |-> mainWindow,
                              cached |-> Cardinality({k \in Keys : cache[k] # NotCached}),
                              sent |-> w.sent])
  /\ fsEvents' = Tail(fsEvents)
  /\ UNCHANGED <<pureVars, storeVars, claudeVars, mainVars, response, callLog,
                 platform, pc, mainWindow, watcher, timer, writes>>

\* What a file operation adds to the watcher's queue.
Emit(eventType) == IF watcher THEN Append(fsEvents, eventType) ELSE fsEvents

\* Another process (the editor) writes, deletes or creates the store file.
\* A write stores a new last bubble for the most recent conversation, a
\* second after the one it replaces.
EditorWrite ==
  /\ pc # "quit"
  /\ writes < MaxWrites
  /\ dbFile = "valid"
  /\ writes' = writes + 1
  /\ kv' = [kv EXCEPT ![generateBubbleIdKey(MaxConvs, MaxHeaders)] =
                          OkBubble(Iso(@.createdAt.t + 1000))]
  /\ fsEvents' = Emit("change")
  /\ UNCHANGED <<pureVars, dbFile, claudeVars, readerVars, mainVars, response, callLog,
                 platform, pc, mainWindow, watcher, timer, notified, lastWatch>>

DeleteFile ==
  /\ pc # "quit"
  /\ writes < MaxWrites
  /\ dbFile # "missing"
  /\ dbFile' = "missing"
  /\ writes' = writes + 1
  /\ fsEvents' = Emit("rename")
  /\ UNCHANGED <<pureVars, kv, claudeVars, readerVars, mainVars, response, callLog,
                 platform, pc, mainWindow, watcher, timer, notified, lastWatch>>

CreateFile ==
  /\ pc # "quit"
  /\ writes < MaxWrites
  /\ dbFile = "missing"
  /\ \E content \in {"invalid", "valid"} : dbFile' = content
  /\ writes' = writes + 1
  /\ fsEvents' = Emit("rename")
  /\ UNCHANGED <<pureVars, kv, claudeVars, readerVars, mainVars, response, callLog,
                 platform, pc, mainWindow, watcher, timer, notified, lastWatch>>

\* The renderer of the open window invokes 'get-recent-chats'.
HandleGetRecentChats(limit) ==
  /\ pc = "running"
  /\ mainWindow
  /\ LET h == GetRecentChatsHandler(dbReader, [db |-> db, cache |-> cache], dbFile, kv,
                                    claudeReader, claudeFs, limit, fsRace)
     IN /\ db' = h.r.db
        /\ cache' = h.r.cache
        /\ response' = Some(h.response)
  /\ UNCHANGED <<pureVars, storeVars, claudeVars, mainVars, callLog, lifeVars>>

\* The window's 'closed' handler, then app 'window-all-closed'; app.quit()
\* runs 'before-quit', which closes the watcher.
WindowAllClosed ==
  /\ pc = "running"
  /\ mainWindow
  /\ mainWindow' = FALSE
  /\ LET r == IF dbReader THEN close([db |-> db, cache |-> cache])
              ELSE [db |-> db, cache |-> cache]
     IN /\ db' = r.db
        /\ cache' = r.cache
  /\ IF platform # "darwin"
     THEN /\ pc' = "quit"
          /\ watcher' = FALSE
     ELSE UNCHANGED <<pc, watcher>>
  /\ UNCHANGED <<pureVars, storeVars, claudeVars, mainVars, response, callLog,
                 platform, timer, fsEvents, notified, writes, lastWatch>>

\* app 'activate' (or a tray click) with no window: createWindow.
Activate ==
  /\ pc = "running"
  /\ ~mainWindow
  /\ mainWindow' = TRUE
  /\ UNCHANGED <<pureVars, storeVars, claudeVars, readerVars, mainVars, response, callLog,
                 platform, pc, watcher, timer, fsEvents, notified, writes, lastWatch>>

Next ==
  \/ InitializeDatabase
  \/ FinishStartup
  \/ TimerFires
  \/ DeliverEvent
  \/ EditorWrite
  \/ DeleteFile
  \/ CreateFile
  \/ \E limit \in 0..MaxLimit : HandleGetRecentChats(limit)
  \/ WindowAllClosed
  \/ Activate

Spec == Init /\ [][Next]_vars

\* The event loop runs every turn that is ready: the startup steps, an
\* armed timer, a queued watcher event.
FairSpec ==
  /\ Spec
  /\ WF_vars(InitializeDatabase)
  /\ WF_vars(FinishStartup)
  /\ WF_vars(TimerFires)
  /\ WF_vars(DeliverEvent)

----------------------------------------------------------------------------
(* SpecSummaries: the summarizing methods of the two readers, called on     *)
(* every bounded record of conversation 1 and every bounded log of          *)
(* session file 1.                                                          *)

RecentSample == [row |-> OkConv(MaxHeaders, FALSE), last |-> OkBubble(Iso(Now - 5000))]

\* Conversation 1 holds any row over any bubbles; the others the sample.
SummaryStores ==
  {[k \in Keys |->
      IF k.c # 1 THEN StoreOf([c \in ConvIds |-> RecentSample])[k]
      ELSE IF k.t = "composerData" THEN row
      ELSE bubbles[k.b]] :
     row \in RowsFor(ConvKey(1)),
     bubbles \in [BubbleIds -> RowsFor(generateBubbleIdKey(1, 1))]}

\* record.timestamp of a logged message: absent, '', not a date, a time.
LineTimestamps ==
  {[kind |-> "missing"], [kind |-> "empty"], [kind |-> "invalid"]}
  \cup {Iso(t) : t \in Timestamps}

LogLines ==
  {CorruptLine, SummaryLine}
  \cup {MessageLine("user", TextBlocks, ts, 1) : ts \in LineTimestamps}

RecentFile ==
  [kind |-> "file",
   lines |-> <<CorruptLine, MessageLine("user", TextBlocks, Iso(Now - 5000), 1)>>]

\* Session file 1 holds any bounded log, or is absent; the others the sample.
SummaryFs ==
  {[root |-> TRUE, files |-> [f \in FileIds |-> IF f = 1 THEN file ELSE RecentFile]] :
     file \in {Absent} \cup {[kind |-> "file", lines |-> l] : l \in SeqsUpTo(LogLines, MaxMsgs)}}

InitSummaries ==
  /\ PureIdle
  /\ LifeIdle
  /\ dbFile = "valid"
  /\ dbReader = TRUE
  /\ claudeReader = TRUE
  /\ db = "valid"
  /\ cache = EmptyCache
  /\ response = None
  /\ callLog = <<>>
  /\ \/ /\ kv \in SummaryStores
        /\ claudeFs = LifeFs
        /\ fsRace = NoRace
     \/ /\ kv = LifeStore
        /\ claudeFs \in SummaryFs
        /\ fsRace \in Races

\* needs: the options ask for something the bubble loop collects.
GetConversationSummary(c) ==
  /\ produced = None
  /\ \E needs \in BOOLEAN :
     \E g \in {getConversationSummary([db |-> db, cache |-> cache], dbFile, kv, c, needs)} :
       /\ db' = g.r.db
       /\ cache' = g.r.cache
       /\ produced' = Produced("getConversationSummary", c, g.threw, g.value)
  /\ UNCHANGED <<rendererVars, summary, task, messages, pending, storeVars, claudeVars, mainVars,
                 response, callLog, lifeVars>>

ParseSessionFile(f) ==
  /\ produced = None
  /\ produced' = Produced("parseSessionFile", f, "none", parseSessionFile(claudeFs.files[f]))
  /\ UNCHANGED <<rendererVars, summary, task, messages, pending, appVars>>

GetRecentSessions(limit) ==
  /\ produced = None
  /\ \E g \in {getRecentSessions(limit, claudeFs, fsRace)} :
       produced' = Produced("getRecentSessions", limit, g.threw, g.value)
  /\ UNCHANGED <<rendererVars, summary, task, messages, pending, appVars>>

NextSummaries ==
  \/ \E c \in ConvIds : GetConversationSummary(c)
  \/ \E f \in FileIds : ParseSessionFile(f)
  \/ \E limit \in 0..MaxLimit : GetRecentSessions(limit)

SpecSummaries == InitSummaries /\ [][NextSummaries]_vars

----------------------------------------------------------------------------
(* SpecTask: every bounded summary, then mapSummaryToTask.                  *)

InitTask ==
  /\ summary \in SummaryInputs
  /\ task = None
  /\ messages = <<>>
  /\ pending = None
  /\ produced = None
  /\ RendererIdle
  /\ AppIdle

MapSummaryToTask ==
  /\ task = None
  /\ summary # None
  /\ task' = Some(mapSummaryToTask(summary))
  /\ UNCHANGED <<rendererVars, summary, messages, pending, produced, appVars>>

NextTask == MapSummaryToTask

SpecTask == InitTask /\ [][NextTask]_vars

----------------------------------------------------------------------------
(* SpecPending: every bounded log, then hasBlockingPendingActions.          *)

InitPending ==
  /\ messages \in SeqsUpTo(MessageRecords, MaxMsgs)
  /\ pending = None
  /\ summary = None
  /\ task = None
  /\ produced = None
  /\ RendererIdle
  /\ AppIdle

HasBlockingPendingActions ==
  /\ pending = None
  /\ summary = None
  /\ pending' = Some(hasBlockingPendingActions(messages))
  /\ UNCHANGED <<rendererVars, summary, task, messages, produced, appVars>>

NextPending == HasBlockingPendingActions

SpecPending == InitPending /\ [][NextPending]_vars

----------------------------------------------------------------------------
(* SpecTodos: every bounded log of messages with TodoWrite blocks, then     *)
(* extractTodoStats.                                                        *)

\* input.todos of a TodoWrite block that is no array (input or todos absent).
NotArray == [kind |-> "notArray", items |-> <<>>]

Statuses == {"pending", "in_progress", "completed"}

\* The todo lists a TodoWrite block carries; the content of a todo is its
\* position in the list.
TodoLists ==
  UNION {{[kind |-> "array",
            items |-> [i \in 1..n |-> [content |-> i, status |-> st[i]]]] :
             st \in [1..n -> Statuses]} :
           n \in 0..MaxItems}

\* The blocks of a content list: text, a tool_use of another tool, TodoWrite.
TodoBlocks ==
  {[type |-> "text", name |-> "", todos |-> NotArray],
   [type |-> "tool_use", name |-> "Bash", todos |-> NotArray]}
  \cup {[type |-> "tool_use", name |-> "TodoWrite", todos |-> t] :
          t \in TodoLists \cup {NotArray}}

StringMessage == [content |-> [kind |-> "string", blocks |-> <<>>]]
BlocksMessage(blocks) == [content |-> [kind |-> "array", blocks |-> blocks]]

\* for (const content of message.message.content): the todos of the first
\* TodoWrite block from position i on whose input.todos is an array.
RECURSIVE FirstTodoWrite(_, _)
FirstTodoWrite(blocks, i) ==
  IF i > Len(blocks) THEN None
  ELSE IF /\ blocks[i].type = "tool_use"
          /\ blocks[i].name = "TodoWrite"
          /\ blocks[i].todos.kind = "array"
  THEN Some(blocks[i].todos.items)
  ELSE FirstTodoWrite(blocks, i + 1)

\* for (let i = messages.length - 1; i >= 0; i--): latestTodos when the loop
\* is at message i; the loop ends only on a list that is not empty.
RECURSIVE LatestTodos(_, _)
LatestTodos(msgs, i) ==
  IF i = 0 THEN <<>>
  ELSE The({
         IF found # None /\ Len(found[1]) > 0 THEN found[1]
         ELSE LatestTodos(msgs, i - 1)
    : found \in {IF IsArray(msgs[i].content)
                 THEN FirstTodoWrite(msgs[i].content.blocks, 1)
                 ELSE None}})

\* completed, total and firstInProgress of a todo list.
StatsOf(todos) ==
  [completed |-> Cardinality({i \in DOMAIN todos : todos[i].status = "completed"}),
   total |-> Len(todos),
   firstInProgress |->
     IF \E i \in DOMAIN todos : todos[i].status = "in_progress"
     THEN Some(todos[CHOOSE i \in DOMAIN todos :
                       /\ todos[i].status = "in_progress"
                       /\ \A j \in 1..(i - 1) : todos[j].status # "in_progress"].content)
     ELSE None]

extractTodoStats(msgs) == StatsOf(LatestTodos(msgs, Len(msgs)))

\* Logs of messages with one block each, and a message of several blocks
\* (with lists of at most one todo) after a message that wrote two todos.
TodoLogs ==
  SeqsUpTo({StringMessage} \cup {BlocksMessage(<<b>>) : b \in TodoBlocks}, MaxMsgs)
  \cup {<<BlocksMessage(<<[type |-> "tool_use", name |-> "TodoWrite",
                           todos |-> [kind |-> "array",
                                      items |-> <<[content |-> 1, status |-> "completed"],
                                                  [content |-> 2, status |-> "in_progress"]>>]]>>),
          BlocksMessage(blocks)>> :
          blocks \in SeqsUpTo({b \in TodoBlocks : Len(b.todos.items) <= 1}, MaxBlocks)}

InitTodos ==
  /\ messages \in TodoLogs
  /\ pending = None
  /\ summary = None
  /\ task = None
  /\ produced = None
  /\ RendererIdle
  /\ AppIdle

ExtractTodoStats ==
  /\ produced = None
  /\ produced' = Produced("extractTodoStats", Len(messages), "none", extractTodoStats(messages))
  /\ UNCHANGED <<rendererVars, summary, task, messages, pending, appVars>>

NextTodos == ExtractTodoStats

SpecTodos == InitTodos /\ [][NextTodos]_vars

----------------------------------------------------------------------------
(* SpecListeners: the renderer registers callbacks with                     *)
(* window.api.onDatabaseChanged (the effect of useOverlayData), calls the   *)
(* functions the registrations returned (the effect's cleanup), and         *)
(* receives 'database-changed' events.                                      *)

\* ipcRenderer.removeListener(channel, listener): ignores the call.
removeListener_Noop(ls, r) == ls

\* ipcRenderer.removeListener(channel, listener): the list without the most
\* recently added instance of the listener.
removeListener(ls, r) ==
  IF \A i \in DOMAIN ls : ls[i] # r THEN ls
  ELSE LET last == CHOOSE i \in DOMAIN ls :
                     ls[i] = r /\ \A j \in DOMAIN ls : ls[j] = r => j <= i
       IN [i \in 1..(Len(ls) - 1) |-> IF i < last THEN ls[i] ELSE ls[i + 1]]

\* ipcRenderer.on(channel, listener)
on(ls, r) == Append(ls, r)

\* How often an emit calls listener r: once per instance in the list.
Instances(ls, r) == Cardinality({i \in DOMAIN ls : ls[i] = r})

InitListeners ==
  /\ PureIdle
  /\ AppIdle

\* window.api.onDatabaseChanged(callback): registration r is the next one.
OnDatabaseChanged(r) ==
  /\ callbacks[r].state = "unused"
  /\ \A q \in RegIds : q < r => callbacks[q].state # "unused"
  /\ listeners' = on(listeners, r)
  /\ callbacks' = [callbacks EXCEPT ![r].state = "registered"]
  /\ UNCHANGED <<events, refreshVars, blacklistVars, summary, task, messages, pending, produced, appVars>>

\* A call of the function registration r returned (cleanupDatabaseListener).
Unregister(r) ==
  /\ callbacks[r].state # "unused"
  /\ listeners' = removeListener(listeners, r)
  /\ callbacks' = [callbacks EXCEPT ![r].state = "unregistered"]
  /\ UNCHANGED <<events, refreshVars, blacklistVars, summary, task, messages, pending, produced, appVars>>

\* ipcRenderer emits one 'database-changed' event.
DatabaseChanged ==
  /\ events.count < MaxEvents
  /\ callbacks' = [r \in RegIds |->
                     [callbacks[r] EXCEPT !.invoked = @ + Instances(listeners, r)]]
  /\ events' = [count |-> events.count + 1,
                last |-> {listeners[i] : i \in DOMAIN listeners}]
  /\ UNCHANGED <<listeners, refreshVars, blacklistVars, summary, task, messages, pending, produced, appVars>>

NextListeners ==
  \/ \E r \in RegIds : OnDatabaseChanged(r)
  \/ \E r \in RegIds : Unregister(r)
  \/ DatabaseChanged

SpecListeners == InitListeners /\ [][NextListeners]_vars

----------------------------------------------------------------------------
(* SpecFolder: getCommonFolderName applied to bounded lists of paths, and   *)
(* the projectName getConversationSummary derives from it.                  *)

\* The pieces p.split('/') gives: '' (around a leading or doubled '/'), two
\* folder names, a generic folder name and a file name.
Segments == {"", "repo", "api", "src", "main.ts"}

\* The names with a dot in them.
Dotted == {"main.ts"}

blacklist ==
  {"src", "dist", "build", "out", "lib", "node_modules", "tests", "test", "__pycache__", "venv"}

\* p.split('/').filter(Boolean)
RECURSIVE FilterBoolean(_)
FilterBoolean(p) ==
  IF p = <<>> THEN <<>>
  ELSE (IF p[1] = "" THEN <<>> ELSE <<p[1]>>) \o FilterBoolean(Tail(p))

\* The loop that fills common, from index i on (indices from 1).
RECURSIVE Common(_, _, _)
Common(splitPaths, minLen, i) ==
  IF i > minLen THEN <<>>
  ELSE IF \A k \in DOMAIN splitPaths : splitPaths[k][i] = splitPaths[1][i]
  THEN <<splitPaths[1][i]>> \o Common(splitPaths, minLen, i + 1)
  ELSE <<>>

\* The loop 'find the last valid folder' with the index going up instead.
RECURSIVE FirstValid(_, _)
FirstValid(common, i) ==
  IF i > Len(common) THEN None
  ELSE IF common[i] \notin blacklist /\ common[i] \notin Dotted THEN Some(common[i])
  ELSE FirstValid(common, i + 1)

\* for (let i = common.length - 1; i >= 0; i--)
RECURSIVE LastValid(_, _)
LastValid(common, i) ==
  IF i = 0 THEN None
  ELSE IF common[i] \notin blacklist /\ common[i] \notin Dotted THEN Some(common[i])
  ELSE LastValid(common, i - 1)

getCommonFolderName_Shallowest(paths) ==
  IF Len(paths) = 0 THEN None
  ELSE The({FirstValid(common, 1)
    : common \in {The({
        Common(splitPaths,
               CHOOSE m \in {Len(splitPaths[k]) : k \in DOMAIN splitPaths} :
                 \A k \in DOMAIN splitPaths : m <= Len(splitPaths[k]),
               1)
    : splitPaths \in {[k \in DOMAIN paths |-> FilterBoolean(paths[k])]}})}})

getCommonFolderName(paths) ==
  IF Len(paths) = 0 THEN None
  ELSE The({LastValid(common, Len(common))
    : common \in {The({
        Common(splitPaths,
               CHOOSE m \in {Len(splitPaths[k]) : k \in DOMAIN splitPaths} :
                 \A k \in DOMAIN splitPaths : m <= Len(splitPaths[k]),
               1)
    : splitPaths \in {[k \in DOMAIN paths |-> FilterBoolean(paths[k])]}})}})

\* projectName: this.getCommonFolderName(...) || 'unknown'
ProjectNameOf(folder) == IF folder = None THEN "unknown" ELSE folder[1]

\* The keys of codeBlockData: no path, or a first path of up to MaxSegs
\* pieces and further ones that leave it at some depth.
FirstPaths == SeqsUpTo(Segments, MaxSegs)
Leaving(first) ==
  {SubSeq(first, 1, n) \o tail : n \in 0..Len(first), tail \in SeqsUpTo(Segments, 1)}

InitFolder ==
  /\ PureIdle
  /\ AppIdle

GetCommonFolderName(paths) ==
  /\ \E g \in {getCommonFolderName(paths)} :
       produced' = Produced("getCommonFolderName", paths, "none",
                            [folder |-> g, projectName |-> ProjectNameOf(g)])
  /\ UNCHANGED <<rendererVars, summary, task, messages, pending, appVars>>

\* One call, on any of the path lists.
NextFolder ==
  /\ produced = None
  /\ \/ GetCommonFolderName(<<>>)
     \/ \E first \in FirstPaths :
          \E rest \in SeqsUpTo(Leaving(first), MaxPaths - 1) :
            GetCommonFolderName(<<first>> \o rest)

SpecFolder == InitFolder /\ [][NextFolder]_vars

----------------------------------------------------------------------------
(* SpecRefresh: the load() calls of useOverlayData (on mount, on every      *)
(* interval tick, on every 'database-changed'), the main process answering  *)
(* them, and the store written meanwhile. What a request returns is the     *)
(* state of the store when the handler runs: the number of writes so far.   *)

\* The replies the renderer can receive next, reordered at will.
Deliverable_AnyOrder(q) == {i \in DOMAIN q : q[i].stage = "answered"}

\* ipcRenderer.invoke resolves in the order of the calls: the reply the
\* renderer can receive next is that of the oldest load in flight.
Deliverable(q) == IF q # <<>> /\ q[1].stage = "answered" THEN {1} ELSE {}

\* The requests the main process can handle next: the oldest not yet
\* handled (the handler runs to its end without a pause for I/O).
Handleable(q) ==
  {i \in DOMAIN q : q[i].stage = "sent" /\ \A j \in 1..(i - 1) : q[j].stage = "answered"}

Without(q, i) == [j \in 1..(Len(q) - 1) |-> IF j < i THEN q[j] ELSE q[j + 1]]

InitRefresh ==
  /\ PureIdle
  /\ AppIdle

\* load() up to 'await window.api.getRecentChats(20)'.
Load ==
  /\ started < MaxLoads
  /\ started' = started + 1
  /\ loads' = Append(loads, [id |-> started + 1, stage |-> "sent", data |-> 0])
  /\ UNCHANGED <<display, listenerVars, blacklistVars, summary, task, messages, pending, produced, appVars>>

\* ipcMain.handle('get-recent-chats') runs for the request of load i.
HandleRequest(i) ==
  /\ i \in Handleable(loads)
  /\ loads' = [loads EXCEPT ![i] = [@ EXCEPT !.stage = "answered", !.data = writes]]
  /\ UNCHANGED <<display, started, listenerVars, blacklistVars, summary, task, messages, pending, produced,
                 appVars>>

\* load() after the await: setState(() => newState).
SetState(i) ==
  /\ i \in Deliverable(loads)
  /\ display' = [load |-> loads[i].id, data |-> loads[i].data]
  /\ loads' = Without(loads, i)
  /\ UNCHANGED <<started, listenerVars, blacklistVars, summary, task, messages, pending, produced, appVars>>

\* The editor writes the store.
StoreWrite ==
  /\ writes < MaxWrites
  /\ writes' = writes + 1
  /\ UNCHANGED <<pureVars, storeVars, claudeVars, readerVars, mainVars, response, callLog,
                 platform, pc, mainWindow, watcher, timer, fsEvents, notified, lastWatch>>

NextRefresh ==
  \/ Load
  \/ \E i \in 1..MaxLoads : HandleRequest(i)
  \/ \E i \in 1..MaxLoads : SetState(i)
  \/ StoreWrite

SpecRefresh == InitRefresh /\ [][NextRefresh]_vars

----------------------------------------------------------------------------
(* SpecBlacklist: OverlayApp with its useBlacklist state: the mount effect  *)
(* reads localStorage, the user hides conversations (addToBlacklist), and   *)
(* preact renders again after a state change. The tasks are ConvIds.        *)

\* const newBlacklist = new Set(blacklist); newBlacklist.add(id), where
\* blacklist is the state the rendering that made the closure saw.
addToBlacklist(seen, id) == seen \cup {id}

\* The composerIds of state.tasks.
MaxTasks == 3
TaskIds == 1..MaxTasks

\* filteredTasks, the tasks of the three buckets together.
filteredTasks == TaskIds \ rendered

\* localStorage holds nothing, or the array an earlier run stored; the
\* first render has seen the empty set, its effect has not run yet.
InitBlacklist ==
  /\ summary = None
  /\ task = None
  /\ messages = <<>>
  /\ pending = None
  /\ produced = None
  /\ listeners = <<>>
  /\ callbacks = [r \in RegIds |-> [state |-> "unused", invoked |-> 0]]
  /\ events = [count |-> 0, last |-> {}]
  /\ loads = <<>>
  /\ display = [load |-> 0, data |-> 0]
  /\ started = 0
  /\ blacklistState = {}
  /\ rendered = {}
  /\ stored \in {None} \cup {Some(ids) : ids \in SUBSET TaskIds}
  /\ passed = {}
  /\ mounted = FALSE
  /\ AppIdle

\* The effect of useBlacklist: setBlacklist(new Set(parsed)).
LoadBlacklist ==
  /\ ~mounted
  /\ mounted' = TRUE
  /\ blacklistState' = IF stored # None THEN stored[1] ELSE blacklistState
  /\ UNCHANGED <<rendered, stored, passed, listenerVars, refreshVars, summary, task, messages,
                 pending, produced, appVars>>

\* addToBlacklist(id) of the closure of the last render.
AddToBlacklist(id) ==
  /\ mounted
  /\ blacklistState' = addToBlacklist(rendered, id)
  /\ stored' = Some(addToBlacklist(rendered, id))
  /\ passed' = passed \cup {id}
  /\ UNCHANGED <<rendered, mounted, listenerVars, refreshVars, summary, task, messages, pending,
                 produced, appVars>>

\* preact renders OverlayApp with the state as it stands.
Render ==
  /\ rendered # blacklistState
  /\ rendered' = blacklistState
  /\ UNCHANGED <<blacklistState, stored, passed, mounted, listenerVars, refreshVars, summary, task, messages,
                 pending, produced, appVars>>

NextBlacklist ==
  \/ LoadBlacklist
  \/ \E id \in TaskIds : AddToBlacklist(id)
  \/ Render

SpecBlacklist == InitBlacklist /\ [][NextBlacklist]_vars

----------------------------------------------------------------------------
(* C1: in the list 'get-recent-chats' returns, a summary whose last         *)
(* activity time is unknown never stands before a summary whose time is     *)
(* known.                                                                   *)
C1_UnknownSortsLast ==
  (response # None /\ response[1].kind = "result") =>
    \A i, j \in DOMAIN response[1].data :
      i < j => ~(/\ response[1].data[i].lastActivityTime = "unknown"
                 /\ response[1].data[j].lastActivityTime = "known")

CountSource(q, source) == Cardinality({i \in DOMAIN q : q[i].source = source})

(* C2: with both sources healthy, the result of a request of limit n holds  *)
(* at most floor(n/2) summaries tagged 'cursor' and at most floor(n/2)      *)
(* tagged 'claude'.                                                         *)
C2_MergeFairness ==
  (/\ response # None
   /\ response[1].kind = "result"
   /\ response[1].errors = <<>>)
  => /\ CountSource(response[1].data, "cursor") <= response[1].limit \div 2
     /\ CountSource(response[1].data, "claude") <= response[1].limit \div 2

\* After the request: the Cursor half failed iff the reader is null or its
\* handle did not pass the connection test; the Claude half failed iff the
\* reader is null or a stat inside getRecentSessions threw.
CursorFailed == ~dbReader \/ db # "valid"
ClaudeFailed == ~claudeReader \/ getRecentSessions(1, claudeFs, fsRace).threw # "none"

Range(q) == {q[i] : i \in DOMAIN q}

(* C3: when exactly one source failed, the result holds every item the     *)
(* healthy source gave and its error list is one string naming the failed  *)
(* source.                                                                  *)
C3_OneSourceFails ==
  (/\ response # None
   /\ response[1].kind = "result"
   /\ CursorFailed # ClaudeFailed)
  => LET healthy == IF CursorFailed THEN response[1].fromClaude ELSE response[1].fromCursor
     IN /\ Len(response[1].errors) = 1
        /\ response[1].errors[1] \in
             (IF CursorFailed
              THEN {"Cursor database not connected", "Cursor: DatabaseConnectionError",
                    "Cursor: DatabaseError"}
              ELSE {"Claude reader not initialized", "Claude: ENOENT"})
        /\ Len(response[1].data) = Len(healthy)
        /\ Range(healthy) \subseteq Range(response[1].data)

(* C4: every 'get-recent-chats' request returns a result object with a     *)
(* data list, whatever the state of the two sources; when both sources     *)
(* failed the data list is empty and the error list holds one string for   *)
(* the Cursor source and one for the Claude source.                        *)
C4_NeverFails ==
  response # None =>
    /\ response[1].kind = "result"
    /\ Len(response[1].data) <= response[1].limit
    /\ (CursorFailed /\ ClaudeFailed) =>
         /\ response[1].data = <<>>
         /\ Len(response[1].errors) = 2
         /\ response[1].errors[1] \in
              {"Cursor database not connected", "Cursor: DatabaseConnectionError",
               "Cursor: DatabaseError"}
         /\ response[1].errors[2] \in {"Claude reader not initialized", "Claude: ENOENT"}

\* Both readers exist and both throw: the connection test failed and a
\* project directory vanished before its stat.
C4_Witness ==
  /\ response # None
  /\ response[1].kind = "result"
  /\ dbReader /\ db = "invalid"
  /\ claudeReader /\ fsRace.at = "projectStat" /\ claudeFs.root
  /\ response[1].data = <<>>
  /\ Len(response[1].errors) = 2

----------------------------------------------------------------------------
\* The last two calls were getConversationById of one id, the first of them
\* made on a connected reader.
ConsecutiveGets ==
  /\ Len(callLog) = 2
  /\ callLog[1].op = "getConversationById"
  /\ callLog[2].op = "getConversationById"
  /\ callLog[1].c = callLog[2].c
  /\ callLog[1].connected

(* C5 as stated: two consecutive getConversationById(id) calls on a        *)
(* connected reader, nothing between them, read the store at most once,    *)
(* the second being served from the cache; for any id.                     *)
C5_AtMostOneRead ==
  ConsecutiveGets =>
    /\ callLog[1].reads + callLog[2].reads <= 1
    /\ callLog[2].reads = 0

(* C5, amended: for an id whose record is present and decodable, two       *)
(* consecutive getConversationById(id) calls on a connected reader,        *)
(* nothing between them, read the store at most once; the second call      *)
(* returns from the cache without a read.                                  *)
C5_AtMostOneReadOfPresent ==
  (ConsecutiveGets /\ kv[ConvKey(callLog[1].c)].kind = "ok") =>
    /\ callLog[1].reads + callLog[2].reads <= 1
    /\ callLog[2].reads = 0
    /\ callLog[2].threw = "none"

\* The first call read the store, the second did not.
C5_Witness ==
  /\ ConsecutiveGets
  /\ kv[ConvKey(callLog[1].c)].kind = "ok"
  /\ callLog[1].reads = 1
  /\ callLog[2].reads = 0

----------------------------------------------------------------------------
(* C6 as stated: every event the watcher delivers, in every state of the   *)
(* application, leaves the reader's cache empty and sends one              *)
(* 'database-changed' message.                                             *)
C6_EveryEventClearsAndNotifies ==
  [][Len(fsEvents') < Len(fsEvents) =>
       /\ cache' = EmptyCache
       /\ notified' = notified + 1]_vars

(* C6, amended: every event the watcher delivers while the main window     *)
(* exists leaves the reader's cache empty and sends one 'database-changed' *)
(* message.                                                                *)
C6_EventWithWindowClearsAndNotifies ==
  [][(Len(fsEvents') < Len(fsEvents) /\ mainWindow) =>
       /\ cache' = EmptyCache
       /\ notified' = notified + 1]_vars

\* An event found the window open and entries in the cache, and the
\* callback has just returned.
C6_Witness ==
  /\ lastWatch # None
  /\ lastWatch[1].window
  /\ lastWatch[1].cached > 0
  /\ lastWatch[1].sent = 1
  /\ cache = EmptyCache
  /\ notified > 0

(* C7: once setupDatabaseWatcher has found the store file missing, a       *)
(* watcher is eventually attached if the file comes to exist and stays,    *)
(* the application running.                                                *)
C7_WatcherEventuallyAttached ==
  []((timer # "idle" /\ [](dbFile # "missing" /\ pc = "running")) => <>watcher)

----------------------------------------------------------------------------
\* The method the last call made, and whether it returned a summary.
Called(op) == produced # None /\ produced[1].op = op
GaveSummary == produced[1].threw = "none" /\ produced[1].value # Null

\* The createdAt getLastActivityTime finds for conversation c: that of the
\* bubble the last header names ("missing" without header or bubble).
LastCreatedAt(c) ==
  LET headers == kv[ConvKey(c)].headers
      bubble == Lookup(kv, generateBubbleIdKey(c, IF Len(headers) = 0 THEN 0
                                                  ELSE headers[Len(headers)]))
  IN IF bubble.kind = "ok" THEN bubble.createdAt ELSE [kind |-> "missing"]

\* The record of conversation c and of each bubble its headers name decode.
Decodable(c) ==
  /\ kv[ConvKey(c)].kind = "ok"
  /\ \A i \in DOMAIN kv[ConvKey(c)].headers :
       Lookup(kv, generateBubbleIdKey(c, kv[ConvKey(c)].headers[i])) # Corrupt

\* The message records of session file f, and the timestamp of the last.
MessagesOf(f) ==
  IF claudeFs.files[f] = Absent THEN <<>>
  ELSE SelectLines(claudeFs.files[f].lines, {"message"})
LastTimestamp(f) == MessagesOf(f)[Len(MessagesOf(f))].timestamp

(* C11: when the timestamp of the last message is missing, empty or        *)
(* unparseable, either reader still gives the summary, with                *)
(* lastActivityTime 'unknown' and lastActivityTimeMsAgo 0.                 *)
C11_UnknownTimeStillSummarized ==
  /\ (/\ Called("getConversationSummary")
      /\ Decodable(produced[1].arg)
      /\ LastCreatedAt(produced[1].arg).kind # "iso")
     => /\ GaveSummary
        /\ produced[1].value.lastActivityTime = "unknown"
        /\ produced[1].value.lastActivityTimeMsAgo = 0
  /\ (/\ Called("parseSessionFile")
      /\ MessagesOf(produced[1].arg) # <<>>
      /\ LastTimestamp(produced[1].arg).kind # "iso")
     => /\ GaveSummary
        /\ produced[1].value.lastActivityTime = "unknown"
        /\ produced[1].value.lastActivityTimeMsAgo = 0

(* C12: every summary either reader gives with a known last-activity time  *)
(* has lastActivityTimeMsAgo >= 0, whatever the stored timestamp.          *)
C12_KnownMsAgoNotNegative ==
  (/\ Called("getConversationSummary") \/ Called("parseSessionFile")
   /\ GaveSummary
   /\ produced[1].value.lastActivityTime = "known")
  => produced[1].value.lastActivityTimeMsAgo >= 0

(* C13: the list 'get-recent-chats' returns holds at most limit entries,   *)
(* and of two adjacent entries with known activity times the earlier has  *)
(* the smaller or equal lastActivityTimeMsAgo, whatever their sources.    *)
C13_AscendingAndTruncated ==
  (response # None /\ response[1].kind = "result") =>
    /\ Len(response[1].data) <= response[1].limit
    /\ \A i \in 1..(Len(response[1].data) - 1) :
         (/\ response[1].data[i].lastActivityTime = "known"
          /\ response[1].data[i + 1].lastActivityTime = "known")
         => response[1].data[i].lastActivityTimeMsAgo
              <= response[1].data[i + 1].lastActivityTimeMsAgo

\* A recent Claude session stands before a day-old Cursor conversation,
\* which the handler had collected first.
C13_Witness ==
  /\ response # None
  /\ response[1].kind = "result"
  /\ Len(response[1].data) >= 2
  /\ response[1].data[1].source = "claude"
  /\ response[1].data[1].lastActivityTimeMsAgo = 5000
  /\ response[1].data[2].source = "cursor"
  /\ response[1].data[2].lastActivityTimeMsAgo = 90000000

\* The ids the Cursor half of a request of this limit summarizes.
Batch(limit) ==
  Take(DescSeq({c \in ConvIds : kv[ConvKey(c)] # Absent}), limit \div 2)

CursorErrors ==
  {"Cursor database not connected", "Cursor: DatabaseConnectionError", "Cursor: DatabaseError"}

(* C14: with the Cursor source healthy, an id of the batch whose record or *)
(* bubble fails to decode yields no summary, every other id of the batch   *)
(* is summarized and returned, and the error list names no Cursor failure. *)
C14_BatchIsolation ==
  (response # None /\ response[1].kind = "result" /\ ~CursorFailed) =>
    /\ {response[1].fromCursor[i].composerId : i \in DOMAIN response[1].fromCursor}
         = {c \in Range(Batch(response[1].limit)) : Decodable(c)}
    /\ Len(response[1].fromCursor)
         = Cardinality({c \in Range(Batch(response[1].limit)) : Decodable(c)})
    /\ Range(response[1].fromCursor) \subseteq Range(response[1].data)
    /\ \A i \in DOMAIN response[1].errors : response[1].errors[i] \notin CursorErrors

\* The newest record of a batch of two does not decode; the other id is
\* summarized and returned.
C14_Witness ==
  /\ response # None
  /\ response[1].kind = "result"
  /\ ~CursorFailed
  /\ Len(Batch(response[1].limit)) = 2
  /\ kv[ConvKey(Batch(response[1].limit)[1])] = Corrupt
  /\ Len(response[1].fromCursor) = 1
  /\ response[1].fromCursor[1] \in Range(response[1].data)

\* The row of the bubble the i-th header of conversation c names.
BubbleOf(c, i) == Lookup(kv, generateBubbleIdKey(c, kv[ConvKey(c)].headers[i]))

(* C15: when one bubble of a conversation cannot be fetched or decoded      *)
(* while another header's bubble resolves, getConversationSummary skips    *)
(* the failing message and still gives the conversation's summary.         *)
C15_PartialBubbleResolution ==
  (/\ Called("getConversationSummary")
   /\ kv[ConvKey(produced[1].arg)].kind = "ok"
   /\ \E i, j \in DOMAIN kv[ConvKey(produced[1].arg)].headers :
        /\ i # j
        /\ BubbleOf(produced[1].arg, i).kind # "ok"
        /\ BubbleOf(produced[1].arg, j).kind = "ok")
  => GaveSummary

\* How many lines of session file f parse as records that are no summary.
MessageLineCount(f) ==
  IF claudeFs.files[f] = Absent THEN 0
  ELSE Cardinality({i \in DOMAIN claudeFs.files[f].lines :
                      claudeFs.files[f].lines[i].kind = "message"})

(* C16: parseSessionFile skips the lines that are no JSON; a file with at   *)
(* least one message record gives a session whose messageCount is the      *)
(* number of its message records, and a file with none (empty, only        *)
(* summaries, only corrupt lines) gives null.                              *)
C16_CorruptLinesSkipped ==
  Called("parseSessionFile") =>
    IF MessageLineCount(produced[1].arg) = 0 THEN produced[1].value = Null
    ELSE /\ GaveSummary
         /\ produced[1].value.messageCount = MessageLineCount(produced[1].arg)

(* C17: when one session file vanishes between the directory listing and  *)
(* a later stat or read of it, getRecentSessions does not raise and        *)
(* returns the session of every other file (the limit permitting).        *)
C17_FileErrorSkipsOnlyThatFile ==
  (/\ Called("getRecentSessions")
   /\ claudeFs.root
   /\ fsRace.at \in {"sortStat", "loopStat", "parse"})
  => /\ produced[1].threw = "none"
     /\ \A f \in FileIds \ {fsRace.f} :
          (/\ produced[1].arg = 0 \/ produced[1].arg >= MaxFiles
           /\ parseSessionFile(claudeFs.files[f]) # Null)
          => parseSessionFile(claudeFs.files[f]) \in Range(produced[1].value)

\* The TodoWrite blocks of message m that carry a todo list.
TodoWrites(m) ==
  IF ~IsArray(m.content) THEN {}
  ELSE {m.content.blocks[i] : i \in {j \in DOMAIN m.content.blocks :
          /\ m.content.blocks[j].name = "TodoWrite"
          /\ m.content.blocks[j].todos.kind = "array"}}

\* The positions of the messages that hold such a block.
WritingMessages == {i \in DOMAIN messages : TodoWrites(messages[i]) # {}}

(* C18: the statistics extractTodoStats gives are those of a TodoWrite      *)
(* block of the most recent message that holds one, also when that list    *)
(* is empty; an earlier message's TodoWrite never contributes.             *)
C18_MostRecentTodoWriteOnly ==
  Called("extractTodoStats") =>
    IF WritingMessages = {} THEN produced[1].value = StatsOf(<<>>)
    ELSE \E b \in TodoWrites(messages[CHOOSE i \in WritingMessages :
                                          \A j \in WritingMessages : j <= i]) :
           produced[1].value = StatsOf(b.todos.items)

(* C19: after close() the reader holds no handle and an empty cache, and    *)
(* the call did not raise: whether the reader was connected, had never     *)
(* connected, or had just been closed.                                     *)
C19_CloseIdempotent ==
  (callLog # <<>> /\ callLog[Len(callLog)].op = "close")
  => /\ db = "null"
     /\ cache = EmptyCache
     /\ callLog[Len(callLog)].threw = "none"

\* close() on a connected reader, then close() again.
C19_Witness ==
  /\ Len(callLog) = 2
  /\ callLog[1].op = "close"
  /\ callLog[1].connected
  /\ callLog[2].op = "close"
  /\ ~callLog[2].connected
  /\ db = "null"
  /\ cache = EmptyCache

(* C20: one 'database-changed' event invokes a registered callback at      *)
(* most once, and does not invoke a callback whose unregister function     *)
(* has been called.                                                        *)
C20_OncePerEventUntilUnregistered ==
  [][events'.count = events.count + 1 =>
       \A r \in RegIds :
         /\ callbacks'[r].invoked <= callbacks[r].invoked + 1
         /\ callbacks[r].state = "unregistered"
              => callbacks'[r].invoked = callbacks[r].invoked]_vars

\* The first event invoked callback 1, which was then unregistered; the
\* second event invoked callback 2 and not callback 1.
C20_Witness ==
  /\ events.count = 2
  /\ callbacks[1].state = "unregistered"
  /\ callbacks[1].invoked = 1
  /\ callbacks[2].invoked = 1
  /\ events.last = {2}

(* C21: the messageCount of a conversation's summary is the number of      *)
(* header entries of its record, whatever the options ask for and however  *)
(* many of the headers' bubbles exist.                                     *)
C21_MessageCountIsHeaderCount ==
  (Called("getConversationSummary") /\ GaveSummary)
  => produced[1].value.messageCount = Len(kv[ConvKey(produced[1].arg)].headers)

\* A summary of a conversation with two headers of which one bubble is gone.
C21_Witness ==
  /\ Called("getConversationSummary")
  /\ GaveSummary
  /\ Len(kv[ConvKey(produced[1].arg)].headers) = 2
  /\ BubbleOf(produced[1].arg, 1) = Absent
  /\ BubbleOf(produced[1].arg, 2).kind = "ok"
  /\ produced[1].value.messageCount = 2

(* C22: in a result of 'get-recent-chats' no two summaries carry the same   *)
(* source and the same composerId, whatever the store rows and the         *)
(* session files hold.                                                     *)
C22_IdentityUniqueWithinSource ==
  (response # None /\ response[1].kind = "result") =>
    \A i, j \in DOMAIN response[1].data :
      (/\ i # j
       /\ response[1].data[i].source = response[1].data[j].source)
      => response[1].data[i].composerId # response[1].data[j].composerId

\* The last call on the reader was getConversationById, on a store file
\* that holds the table.
GotConversation ==
  /\ callLog # <<>>
  /\ callLog[Len(callLog)].op = "getConversationById"
  /\ dbFile = "valid"

(* C23: getConversationById(id) returns null when the store has no row of  *)
(* the id and raises ConversationParseError when the row does not decode;  *)
(* in both cases the cache has no entry of the id afterwards.              *)
C23_AbsentNullCorruptRaises ==
  GotConversation =>
    LET row == kv[ConvKey(produced[1].arg)]
    IN /\ row = Absent => /\ produced[1].threw = "none"
                          /\ produced[1].value = Null
                          /\ cache[ConvKey(produced[1].arg)] = NotCached
       /\ row = Corrupt => /\ produced[1].threw = "ConversationParseError"
                           /\ cache[ConvKey(produced[1].arg)] = NotCached

\* The call raised the parse error of a row that does not decode, on a
\* reader whose cache holds another conversation.
C23_Witness ==
  /\ GotConversation
  /\ kv[ConvKey(produced[1].arg)] = Corrupt
  /\ produced[1].threw = "ConversationParseError"
  /\ \E c \in ConvIds : cache[ConvKey(c)] # NotCached

\* The folders every one of the paths lies under, outermost first: the
\* longest sequence of names that starts each path.
CommonPrefixOf(paths) ==
  IF paths = <<>> THEN <<>>
  ELSE The({
    SubSeq(split[1], 1,
           CHOOSE m \in 0..Len(split[1]) :
             /\ \A k \in DOMAIN split :
                  m <= Len(split[k]) /\ SubSeq(split[k], 1, m) = SubSeq(split[1], 1, m)
             /\ \A l \in (m + 1)..Len(split[1]) :
                  \E k \in DOMAIN split :
                    l > Len(split[k]) \/ SubSeq(split[k], 1, l) # SubSeq(split[1], 1, l))
    : split \in {[k \in DOMAIN paths |-> FilterBoolean(paths[k])]}})

\* The positions of a prefix that hold a project folder.
ProjectDepths(prefix) == {i \in DOMAIN prefix : prefix[i] \notin blacklist \cup Dotted}

(* C24: getCommonFolderName gives the deepest segment of the longest       *)
(* common path prefix that is neither generic nor dotted, and null when    *)
(* there is none or no path at all; projectName is then 'unknown'.         *)
C24_DeepestProjectFolder ==
  Called("getCommonFolderName") =>
    \A prefix \in {CommonPrefixOf(produced[1].arg)} :
      \A depths \in {ProjectDepths(prefix)} :
        IF depths = {}
        THEN /\ produced[1].value.folder = None
             /\ produced[1].value.projectName = "unknown"
        ELSE /\ produced[1].value.folder =
                  Some(prefix[CHOOSE i \in depths : \A j \in depths : j <= i])
             /\ produced[1].value.projectName = produced[1].value.folder[1]

\* Two files under /repo/api: the deeper of the two folders is the project.
C24_Witness ==
  /\ Called("getCommonFolderName")
  /\ Len(produced[1].arg) = 2
  /\ produced[1].arg[1] # produced[1].arg[2]
  /\ "" \in Range(produced[1].arg[2])
  /\ CommonPrefixOf(produced[1].arg) = <<"repo", "api">>
  /\ produced[1].value.projectName = "api"

(* C25: a connect() that fails with the connection error leaves the        *)
(* reader without a handle, the next connect() on the unchanged store      *)
(* fails again, and no query reads through a handle that failed the test.  *)
C25_FailedConnectLeavesUnconnected ==
  /\ (/\ callLog # <<>>
      /\ callLog[Len(callLog)].op = "connect"
      /\ callLog[Len(callLog)].threw = "DatabaseConnectionError")
     => db = "null"
  /\ (/\ Len(callLog) = 2
      /\ callLog[1].op = "connect"
      /\ callLog[1].threw = "DatabaseConnectionError"
      /\ callLog[2].op = "connect")
     => callLog[2].threw = "DatabaseConnectionError"
  /\ db # "invalid"

(* C26 as stated: once the main process runs, a released handle stays      *)
(* released; no request (for one, a 'get-recent-chats' arriving after      *)
(* 'window-all-closed') opens it, only the connect() of the startup does.  *)
C26_HandleStaysReleased ==
  [][(pc = "running" /\ db = "null") => db' = "null"]_vars

(* C26, corrected: close() releases the handle and it stays released for   *)
(* as long as no window is open; the queries of a later 'get-recent-chats' *)
(* request reopen it through ensureConnected.                              *)
C26_ReleasedWhileNoWindow ==
  (pc = "running" /\ ~mainWindow) => db = "null"

\* The reader had served a request with Cursor conversations, then the
\* last window was closed: the handle is released.
C26_Witness ==
  /\ pc = "running"
  /\ ~mainWindow
  /\ db = "null"
  /\ response # None
  /\ response[1].kind = "result"
  /\ response[1].fromCursor # <<>>

\* Every entry of the reader's cache is the row the store holds now.
Coherent == \A k \in Keys : cache[k] # NotCached => cache[k] = kv[k]

(* C27: whenever every change event of the past store writes has been      *)
(* delivered to the watcher callback, each entry of the Cursor reader's    *)
(* cache equals the store's row of its key.                                *)
C27_CacheCoherentAfterEvents ==
  fsEvents = <<>> => Coherent

(* C28: a summary whose last-activity time is unknown ('unknown', 0) and   *)
(* whose pending-action flag is not set is not given status 'active' and   *)
(* does not pass the 24-hour recency filter.                               *)
C28_UnknownTimeNeverFresh ==
  (/\ task # None
   /\ summary.lastActivityTime = "unknown"
   /\ ~Truthy(summary.hasBlockingPendingActions))
  => /\ task[1].status # "active"
     /\ ~PassesRecencyFilter(summary)

(* C29: loads overlap, yet the tasks on display are never replaced by      *)
(* those of a load that began earlier, each finished load replaces them    *)
(* by data at least as new, and once no load is in flight the display      *)
(* holds the result of the load that began last.                           *)
C29_LastStartedLoadWins ==
  /\ [][/\ display'.load >= display.load
        /\ display'.data >= display.data]_vars
  /\ []((loads = <<>> /\ started > 0) => display.load = started)

\* Three loads overlapped around a write; the display holds the third.
C29_Witness ==
  /\ loads = <<>>
  /\ started = 3
  /\ display = [load |-> 3, data |-> 1]
  /\ writes = 2

(* C30: after any calls of addToBlacklist, several before the next render  *)
(* among them, every id passed is in the in-memory blacklist and in the    *)
(* localStorage list, the two hold the same set, and once rendered no      *)
(* task of a passed id is in a bucket.                                     *)
C30_BlacklistOnlyGrows ==
  passed # {} =>
    /\ passed \subseteq blacklistState
    /\ stored # None
    /\ passed \subseteq stored[1]
    /\ stored[1] = blacklistState
    /\ rendered = blacklistState => filteredTasks \cap passed = {}

----------------------------------------------------------------------------
(* C8: the status mapSummaryToTask derives is 'active' when msAgo < 60000   *)
(* or the pending-action flag is set, otherwise 'pending' when              *)
(* todos.completed < todos.total, otherwise 'completed'; one status for     *)
(* every input, and the spec's three examples come out as stated.           *)
SpecStatus(s) ==
  LET c == IF s.todos = None THEN 0 ELSE s.todos[1].completed
      t == IF s.todos = None THEN 0 ELSE s.todos[1].total
      recent == s.lastActivityTimeMsAgo # None /\ s.lastActivityTimeMsAgo[1] < 60000
      flag == s.hasBlockingPendingActions = Some(TRUE)
  IN CASE recent \/ flag -> "active"
       [] ~(recent \/ flag) /\ c < t -> "pending"
       [] OTHER -> "completed"

C8_StatusDerivation ==
  task # None =>
    /\ task[1].status \in {"active", "pending", "completed"}
    /\ task[1].status = SpecStatus(summary)
    /\ (summary.lastActivityTimeMsAgo = Some(5000) => task[1].status = "active")
    /\ (/\ summary.lastActivityTimeMsAgo = Some(90000000)
        /\ ~Truthy(summary.hasBlockingPendingActions)
        /\ summary.todos = Some([completed |-> 1, total |-> 3])
        => task[1].status = "pending")
    /\ (/\ summary.lastActivityTimeMsAgo = Some(90000000)
        /\ ~Truthy(summary.hasBlockingPendingActions)
        /\ summary.todos = Some([completed |-> 3, total |-> 3])
        => task[1].status = "completed")

\* A stale summary whose only reason to be active is its pending flag.
C8_Witness ==
  /\ task # None
  /\ summary.lastActivityTimeMsAgo = Some(90000000)
  /\ summary.hasBlockingPendingActions = Some(TRUE)
  /\ summary.todos = Some([completed |-> 1, total |-> 3])
  /\ task[1].status = "active"

----------------------------------------------------------------------------
(* C9: the pending flag of a session is a function of its last message      *)
(* alone: assistant with tool_use -> true; assistant without -> false;      *)
(* user with tool_result -> true; fresh user input (no tool_result) ->      *)
(* true; anything else, or no message -> false.                             *)
PendingTable(m) ==
  CASE m.type = "assistant" -> IsArray(m.content) /\ "tool_use" \in m.content.blocks
    [] m.type = "user" /\ IsArray(m.content) /\ "tool_result" \in m.content.blocks -> TRUE
    [] m.type = "user" /\ ~(IsArray(m.content) /\ "tool_result" \in m.content.blocks) -> TRUE
    [] OTHER -> FALSE

C9_LastMessageDecides ==
  pending # None =>
    pending[1] = IF messages = <<>> THEN FALSE ELSE PendingTable(messages[Len(messages)])

(* C10: a last message of role user without a tool_result block makes the   *)
(* session pending, for string content and for a list of typed blocks.      *)
C10_FreshUserInputPending ==
  (/\ pending # None
   /\ messages # <<>>
   /\ messages[Len(messages)].type = "user"
   /\ "tool_result" \notin messages[Len(messages)].content.blocks)
  => pending[1] = TRUE

====
